---- MODULE Spec2Model ----
(***************************************************************************)
(* samrat/emlx: lifetime of an MLX array resource (class ArrayP,           *)
(* create_array_resource, free_array in c_src/emlx_nif.cpp) and the        *)
(* blocking call bridge of c_src/nif_call.h (prepare_nif_call,             *)
(* make_nif_call, nif_call_evaluated, destruct_nif_call_res).              *)
(*                                                                         *)
(* Two specifications share the module:                                    *)
(*   Spec      one array resource used by NThreads native threads;         *)
(*   CallSpec  NInv invoking threads, their call contexts and responders   *)
(*             (FairCallSpec adds the scheduler's fairness).               *)
(***************************************************************************)
EXTENDS Integers, FiniteSets, Sequences, TLC

\* ---------------------------------------------------------------- bounds
NThreads == 3
MaxCalls == 4
MaxDealloc == 3
NInv == 2
MaxCompletes == 2

Threads == 1..NThreads
Inv == 1..NInv
Ctx == 1..NInv
Vals == 1..MaxCompletes
Pieces == {"msg_env", "mtx", "cond"}

\* Terms other than the values of Vals: the atoms nil and enomem made in
\* nif_call_onload, the all-zero word memset leaves in return_value, and
\* the absence of a term.
kAtomNil == 0
kAtomENOMEM == -1
Zeroed == -2
NoValue == -3

\* ------------------------------------------------------------- variables
VARIABLES
  created,      \* create_array_resource has run for the handle
  refcount,     \* std::atomic<int> placed after the array
  deleted,      \* std::atomic_flag placed after refcount
  termLive,     \* the managed runtime still holds the resource term
  finalized,    \* the host ran the resource destructor free_array
  destroyed,    \* number of times mlx::core::array::~array() has run
  pc,           \* per thread: position inside a NIF that takes the array
  err,          \* per thread: error stored by the ArrayP constructor
  dres,         \* per thread: result of its last deallocate() call
  ncalls,       \* NIF calls started so far
  ndealloc,     \* deallocate() calls made so far
  acquired,     \* successful acquires (increments applied by the ctor)
  released,     \* scoped releases (decrements applied by the dtor)
  deallocTrue,  \* deallocate() calls that returned true
  deallocDecs,  \* decrements applied by deallocate()
  everZero,     \* the counter has read 0 at some point
  overlap,      \* two threads held validated references at the same time
  \* ---- call bridge: one entry per CallbackNifRes resource
  mem,              \* "unused", "alloc" (enif_alloc_resource), "freed"
  holders,          \* who keeps the resource referenced: "alloc", "term"
  piece,            \* msg_env, mtx, cond: pointer set?, allocations, frees
  return_value,     \* Zeroed (memset), kAtomNil or a value of Vals
  return_value_set, \* the is-set flag
  sent,             \* the request message: "none", "queued", "lost"
  ncomplete,        \* nif_call_evaluated calls made on the context
  cfirst,           \* the value passed to the first of them
  vused,            \* the last value passed to nif_call_evaluated
  nevaluated,       \* nif_call_evaluated calls made in all
  \* ---- invoking threads (make_nif_call): position, context, result
  ipc, ictx, iret,
  \* ---- per context, its responder inside nif_call_evaluated: position,
  \* value being passed, stores not yet made
  rpc, rval, rpend

resVars == <<created, refcount, deleted, termLive, finalized, destroyed, pc,
             err, dres, ncalls, ndealloc, acquired, released,
             deallocTrue, deallocDecs, everZero, overlap>>

ctxVars == <<mem, holders, piece>>
slotVars == <<return_value, return_value_set>>
invVars == <<ipc, ictx, iret>>
respVars == <<rpc, rval, rpend>>
callHist == <<ncomplete, cfirst, vused, nevaluated>>
callVars == <<ctxVars, slotVars, sent, invVars, respVars, callHist>>

vars == <<resVars, callVars>>

\* ------------------------------------------------------ ArrayP, helpers

\* ArrayP::is_valid(): ptr != nullptr.  ptr is non-null from the moment
\* enif_get_resource succeeded until the constructor nulls it again.
is_valid(t) == pc[t] \in {"ctor_load", "ctor_inc", "body", "dealloc_dec"}

\* A validated reference: the constructor has completed with ptr non-null.
HoldsRef(t) == pc[t] \in {"body", "dealloc_dec"}

\* refcount->load() == 0 in the constructor
AlreadyDeallocated(n) == n = 0

\* Variant: the increment is missing.
Increment_missing(n) == n

\* ++(*refcount)
Increment(n) == n + 1

\* Variant: the destructor compares the value before the decrement with 1.
DestroyOnRelease_from1(old) == old = 1

\* refcount->fetch_sub(1) == 0 in the destructor: old is the value before
\* the decrement.
DestroyOnRelease(old) == old = 0

\* Variant: the flag is set without testing its previous value.
atomic_flag_set_untested(flag) == [old |-> FALSE, new |-> TRUE]

\* atomic_flag_test_and_set(deleted): returns the previous value, sets it.
atomic_flag_test_and_set(flag) == [old |-> flag, new |-> TRUE]

\* The counter of the created handle reads 0.
NoteZero(n) == everZero \/ (created /\ n = 0)

\* ------------------------------------------ CallbackNifRes, helpers

\* A pointer field of CallbackNifRes after memset(res, 0, ...), with the
\* number of times the piece behind it was allocated and released.
NullPiece == [ptr |-> FALSE, allocs |-> 0, frees |-> 0]

\* enif_alloc_env / enif_mutex_create / enif_cond_create succeeded.
AllocPiece(p) == [ptr |-> TRUE, allocs |-> p.allocs + 1, frees |-> p.frees]

\* enif_free_env / enif_mutex_destroy / enif_cond_destroy called on the
\* pointer; prepare_nif_call leaves the field as it was.
FreePiece(p) == [p EXCEPT !.frees = @ + 1]

\* destruct_nif_call_res: each non-NULL piece is released and its field set
\* to NULL.
destruct_nif_call_res(ps) ==
  [k \in Pieces |-> IF ps[k].ptr
                      THEN [ptr |-> FALSE, allocs |-> ps[k].allocs,
                            frees |-> ps[k].frees + 1]
                      ELSE ps[k]]

\* ---------------------------------------------------------------- Init
Init ==
  /\ created = FALSE
  /\ refcount = 0
  /\ deleted = FALSE
  /\ termLive = FALSE
  /\ finalized = FALSE
  /\ destroyed = 0
  /\ pc = [t \in Threads |-> "idle"]
  /\ err = [t \in Threads |-> "none"]
  /\ dres = [t \in Threads |-> "none"]
  /\ ncalls = 0
  /\ ndealloc = 0
  /\ acquired = 0
  /\ released = 0
  /\ deallocTrue = 0
  /\ deallocDecs = 0
  /\ everZero = FALSE
  /\ overlap = FALSE
  /\ mem = [c \in Ctx |-> "unused"]
  /\ holders = [c \in Ctx |-> {}]
  /\ piece = [c \in Ctx |-> [k \in Pieces |-> NullPiece]]
  /\ return_value = [c \in Ctx |-> Zeroed]
  /\ return_value_set = [c \in Ctx |-> FALSE]
  /\ sent = [c \in Ctx |-> "none"]
  /\ ncomplete = [c \in Ctx |-> 0]
  /\ cfirst = [c \in Ctx |-> NoValue]
  /\ vused = 0
  /\ ipc = [i \in Inv |-> "idle"]
  /\ ictx = [i \in Inv |-> 0]
  /\ iret = [i \in Inv |-> NoValue]
  /\ nevaluated = 0
  /\ rpc = [c \in Ctx |-> "idle"]
  /\ rval = [c \in Ctx |-> NoValue]
  /\ rpend = [c \in Ctx |-> {}]

\* create_array_resource: placement-new of the array, refcount(1), a clear
\* flag; the term is the only host reference once the allocation reference
\* has been released.
create_array_resource ==
  /\ ~created
  /\ created' = TRUE
  /\ refcount' = 1
  /\ deleted' = FALSE
  /\ termLive' = TRUE
  /\ UNCHANGED <<finalized, destroyed, pc, err, dres, ncalls, ndealloc,
                 acquired, released, deallocTrue, deallocDecs, everZero,
                 overlap>>
  /\ UNCHANGED callVars

\* A NIF is entered with argv[ARGN] = k and ARRAY_PARAM constructs ArrayP:
\* enif_get_resource either fails (Invalid) or yields ptr.  The array term
\* can only be passed while the runtime holds it.
ArrayP_get_resource(t, k) ==
  /\ pc[t] = "idle"
  /\ ncalls < MaxCalls
  /\ k = "array" => (created /\ termLive)
  /\ ncalls' = ncalls + 1
  /\ IF k = "array"
       THEN /\ pc' = [pc EXCEPT ![t] = "ctor_load"]
            /\ err' = [err EXCEPT ![t] = "none"]
       ELSE /\ pc' = [pc EXCEPT ![t] = "failed"]
            /\ err' = [err EXCEPT ![t] = "Invalid"]
  /\ UNCHANGED <<created, refcount, deleted, termLive, finalized, destroyed,
                 dres, ndealloc, acquired, released, deallocTrue,
                 deallocDecs, everZero, overlap>>
  /\ UNCHANGED callVars

\* if (refcount->load() == 0) { ptr = nullptr; err = ...; return; }
ArrayP_load(t) ==
  /\ pc[t] = "ctor_load"
  /\ IF AlreadyDeallocated(refcount)
       THEN /\ pc' = [pc EXCEPT ![t] = "failed"]
            /\ err' = [err EXCEPT ![t] = "Deallocated"]
       ELSE /\ pc' = [pc EXCEPT ![t] = "ctor_inc"]
            /\ err' = err
  /\ UNCHANGED <<created, refcount, deleted, termLive, finalized, destroyed,
                 dres, ncalls, ndealloc, acquired, released,
                 deallocTrue, deallocDecs, everZero, overlap>>
  /\ UNCHANGED callVars

\* if (is_valid()) ++(*refcount);
ArrayP_increment(t) ==
  /\ pc[t] = "ctor_inc"
  /\ refcount' = Increment(refcount)
  /\ acquired' = acquired + 1
  /\ pc' = [pc EXCEPT ![t] = "body"]
  /\ everZero' = NoteZero(refcount')
  /\ overlap' = (overlap \/ \E u \in Threads \ {t} : HoldsRef(u))
  /\ UNCHANGED <<created, deleted, termLive, finalized, destroyed, err,
                 dres, ncalls, ndealloc, released, deallocTrue, deallocDecs>>
  /\ UNCHANGED callVars

\* ArrayP::deallocate(), first half: is_valid() && test_and_set(deleted).
\* On an invalid ArrayP the && short-circuits and the flag is not touched.
deallocate_test_and_set(t) ==
  /\ pc[t] \in {"body", "failed"}
  /\ ndealloc < MaxDealloc
  /\ ndealloc' = ndealloc + 1
  /\ IF pc[t] = "body"
       THEN LET r == atomic_flag_test_and_set(deleted) IN
            /\ deleted' = r.new
            /\ IF r.old = FALSE
                 THEN /\ pc' = [pc EXCEPT ![t] = "dealloc_dec"]
                      /\ dres' = [dres EXCEPT ![t] = "pending"]
                 ELSE /\ pc' = pc
                      /\ dres' = [dres EXCEPT ![t] = "false"]
       ELSE /\ deleted' = deleted
            /\ pc' = pc
            /\ dres' = [dres EXCEPT ![t] = "false"]
  /\ UNCHANGED <<created, refcount, termLive, finalized, destroyed, err,
                 ncalls, acquired, released, deallocTrue, deallocDecs,
                 everZero, overlap>>
  /\ UNCHANGED callVars

\* ArrayP::deallocate(), second half: --(*refcount); return true;
deallocate_decrement(t) ==
  /\ pc[t] = "dealloc_dec"
  /\ refcount' = refcount - 1
  /\ deallocDecs' = deallocDecs + 1
  /\ deallocTrue' = deallocTrue + 1
  /\ dres' = [dres EXCEPT ![t] = "true"]
  /\ pc' = [pc EXCEPT ![t] = "body"]
  /\ everZero' = NoteZero(refcount')
  /\ UNCHANGED <<created, deleted, termLive, finalized, destroyed, err,
                 ncalls, ndealloc, acquired, released, overlap>>
  /\ UNCHANGED callVars

\* Variant: the destructor decrements without testing is_valid().
ArrayP_dtor_unguarded(t) ==
  /\ pc[t] \in {"body", "failed"}
  /\ pc' = [pc EXCEPT ![t] = "idle"]
  /\ err' = [err EXCEPT ![t] = "none"]
  /\ dres' = [dres EXCEPT ![t] = "none"]
  /\ refcount' = refcount - 1
  /\ released' = IF pc[t] = "body" THEN released + 1 ELSE released
  /\ destroyed' = IF DestroyOnRelease(refcount)
                    THEN destroyed + 1 ELSE destroyed
  /\ everZero' = NoteZero(refcount')
  /\ UNCHANGED <<created, deleted, termLive, finalized, ncalls, ndealloc,
                 acquired, deallocTrue, deallocDecs, overlap>>
  /\ UNCHANGED callVars

\* ArrayP::~ArrayP() at the end of the NIF (also the early return of
\* ARRAY_PARAM when the reference is not valid).
ArrayP_dtor(t) ==
  /\ pc[t] \in {"body", "failed"}
  /\ pc' = [pc EXCEPT ![t] = "idle"]
  /\ err' = [err EXCEPT ![t] = "none"]
  /\ dres' = [dres EXCEPT ![t] = "none"]
  /\ IF pc[t] = "body"
       THEN /\ refcount' = refcount - 1
            /\ released' = released + 1
            /\ destroyed' = IF DestroyOnRelease(refcount)
                              THEN destroyed + 1 ELSE destroyed
       ELSE UNCHANGED <<refcount, released, destroyed>>
  /\ everZero' = NoteZero(refcount')
  /\ UNCHANGED <<created, deleted, termLive, finalized, ncalls, ndealloc,
                 acquired, deallocTrue, deallocDecs, overlap>>
  /\ UNCHANGED callVars

\* The managed runtime drops its last term for the resource.
DropArrayTerm ==
  /\ termLive
  /\ termLive' = FALSE
  /\ UNCHANGED <<created, refcount, deleted, finalized, destroyed, pc,
                 err, dres, ncalls, ndealloc, acquired, released,
                 deallocTrue, deallocDecs, everZero, overlap>>
  /\ UNCHANGED callVars

\* The host calls the resource destructor once no term refers to the
\* resource; a NIF running with the term as argument keeps it referenced.
FinalizerEnabled ==
  /\ created
  /\ ~termLive
  /\ ~finalized
  /\ \A t \in Threads : pc[t] = "idle" \/ err[t] = "Invalid"

\* free_array: arr->~array();
free_array ==
  /\ FinalizerEnabled
  /\ finalized' = TRUE
  /\ destroyed' = destroyed + 1
  /\ UNCHANGED <<created, refcount, deleted, termLive, pc, err, dres,
                 ncalls, ndealloc, acquired, released, deallocTrue,
                 deallocDecs, everZero, overlap>>
  /\ UNCHANGED callVars

Next ==
  \/ create_array_resource
  \/ \E t \in Threads, k \in {"array", "other"} : ArrayP_get_resource(t, k)
  \/ \E t \in Threads : ArrayP_load(t)
  \/ \E t \in Threads : ArrayP_increment(t)
  \/ \E t \in Threads : deallocate_test_and_set(t)
  \/ \E t \in Threads : deallocate_decrement(t)
  \/ \E t \in Threads : ArrayP_dtor(t)
  \/ DropArrayTerm
  \/ free_array

Spec == Init /\ [][Next]_vars

\* -------------------------------------------------------- call bridge

resUnchanged == UNCHANGED resVars

\* Variant: a failure path returns NULL without releasing the resource.
prepare_no_release(ps) ==
  [mem |-> "alloc", holders |-> {"alloc"}, piece |-> ps]

\* enif_release_resource(res) on a failure path of prepare_nif_call: the
\* allocation's reference is the only one, so the resource destructor
\* destruct_nif_call_res runs and the memory is freed.
prepare_release(ps) ==
  [mem |-> "freed", holders |-> {}, piece |-> destruct_nif_call_res(ps)]

\* prepare_nif_call up to its return, for an attempt whose first failing
\* allocation is failAt ("none": every allocation succeeds).  The resource
\* itself has been allocated and zeroed.
prepare_nif_call(failAt) ==
  LET p0 == [k \in Pieces |-> NullPiece]
      p1 == [p0 EXCEPT !["msg_env"] = AllocPiece(@)]
      p2 == [p1 EXCEPT !["mtx"] = AllocPiece(@)]
      p3 == [p2 EXCEPT !["cond"] = AllocPiece(@)]
      fail(r) == [res |-> FALSE, mem |-> r.mem, holders |-> r.holders,
                  piece |-> r.piece, return_value |-> Zeroed]
  IN  CASE failAt = "msg_env" -> fail(prepare_release(p0))
        [] failAt = "mtx" ->
             fail(prepare_release([p1 EXCEPT !["msg_env"] = FreePiece(@)]))
        [] failAt = "cond" ->
             fail(prepare_release([p2 EXCEPT !["msg_env"] = FreePiece(@),
                                            !["mtx"] = FreePiece(@)]))
        [] OTHER -> [res |-> TRUE, mem |-> "alloc", holders |-> {"alloc"},
                     piece |-> p3, return_value |-> kAtomNil]

\* A piece has been released more often than it was allocated: the second
\* enif_free_env / enif_mutex_destroy is handed a pointer that is no
\* longer valid.
DoubleFreed(ps) == \E k \in Pieces : ps[k].frees > ps[k].allocs

\* What a failed prepare_nif_call can end in.  Releasing a piece twice is
\* undefined behaviour: the allocator may not notice and the call returns
\* NULL, or it detects the corruption and aborts the emulator.
PrepareOutcomes(ps) ==
  IF DoubleFreed(ps) THEN {"returns", "aborts"} ELSE {"returns"}

\* The resource enif_alloc_resource hands out: memory not in use (the
\* lowest such, the resources being interchangeable).
FreshCtx ==
  {c \in Ctx : mem[c] = "unused" /\ \A d \in 1..(c - 1) : mem[d] # "unused"}

\* make_nif_call, lines 84-85: prepare_nif_call; on NULL return enomem.
\* failAt = "res" is enif_alloc_resource itself failing.  (The invoking
\* threads being interchangeable, they start in the order of their index.)
\* A thread whose call aborted the emulator takes no further step; the
\* steps other threads are shown taking after the abort are steps of the
\* behaviour in which the call returned.
make_nif_call_prepare(i, failAt) ==
  /\ ipc[i] = "idle"
  /\ \A j \in 1..(i - 1) : ipc[j] # "idle"
  /\ IF failAt = "res"
       THEN /\ ipc' = [ipc EXCEPT ![i] = "done"]
            /\ iret' = [iret EXCEPT ![i] = kAtomENOMEM]
            /\ UNCHANGED <<ctxVars, slotVars, ictx>>
       ELSE \E c \in FreshCtx :
              LET r == prepare_nif_call(failAt) IN
              /\ mem' = [mem EXCEPT ![c] = r.mem]
              /\ holders' = [holders EXCEPT ![c] = r.holders]
              /\ piece' = [piece EXCEPT ![c] = r.piece]
              /\ return_value' = [return_value EXCEPT ![c] = r.return_value]
              /\ return_value_set' = [return_value_set EXCEPT ![c] = FALSE]
              /\ IF r.res
                   THEN /\ ictx' = [ictx EXCEPT ![i] = c]
                        /\ ipc' = [ipc EXCEPT ![i] = "send"]
                        /\ iret' = iret
                   ELSE /\ ictx' = ictx
                        /\ \E o \in PrepareOutcomes(r.piece) :
                             IF o = "returns"
                               THEN /\ ipc' = [ipc EXCEPT ![i] = "done"]
                                    /\ iret' = [iret EXCEPT
                                                 ![i] = kAtomENOMEM]
                               ELSE /\ ipc' = [ipc EXCEPT ![i] = "aborted"]
                                    /\ iret' = iret
  /\ UNCHANGED <<sent, respVars, callHist>>
  /\ resUnchanged

\* The context's mutex is locked.  Only make_nif_call ever locks it
\* (nif_call_evaluated takes no lock), so enif_mutex_lock never waits and
\* locking and unlocking are not steps another thread can observe: they are
\* taken together with the step that follows them.
mtxHeld(c) == \E i \in Inv : ictx[i] = c /\ ipc[i] \in {"callwait", "copy"}

\* make_nif_call, lines 87-92: enif_make_resource gives the term its own
\* reference; enif_send queues the tuple at the evaluator or fails (no such
\* process).  Its result is not looked at.
make_nif_call_send(i, delivered) ==
  /\ ipc[i] = "send"
  /\ holders' = [holders EXCEPT ![ictx[i]] = @ \cup {"term"}]
  /\ sent' = [sent EXCEPT ![ictx[i]] = IF delivered THEN "queued" ELSE "lost"]
  /\ ipc' = [ipc EXCEPT ![i] = "test"]
  /\ UNCHANGED <<mem, piece, slotVars, ictx, iret, respVars, callHist>>
  /\ resUnchanged

\* Variant: the wait loop is left without looking at the is-set flag.
make_nif_call_test_noflag(i) ==
  /\ ipc[i] = "test"
  /\ ~mtxHeld(ictx[i])
  /\ ipc' = [ipc EXCEPT ![i] = "copy"]
  /\ UNCHANGED <<ctxVars, slotVars, sent, ictx, iret, respVars, callHist>>
  /\ resUnchanged

\* lines 94-95: with the mutex locked (by enif_mutex_lock, or again on the
\* return of enif_cond_wait), while (!callback_res->return_value_set).
make_nif_call_test(i) ==
  /\ ipc[i] = "test"
  /\ ~mtxHeld(ictx[i])
  /\ ipc' = [ipc EXCEPT ![i] = IF return_value_set[ictx[i]]
                                 THEN "copy" ELSE "callwait"]
  /\ UNCHANGED <<ctxVars, slotVars, sent, ictx, iret, respVars, callHist>>
  /\ resUnchanged

\* line 96: enif_cond_wait atomically unlocks the mutex and blocks on the
\* condition.
make_nif_call_wait(i) ==
  /\ ipc[i] = "callwait"
  /\ ipc' = [ipc EXCEPT ![i] = "blocked"]
  /\ UNCHANGED <<ctxVars, slotVars, sent, ictx, iret, respVars, callHist>>
  /\ resUnchanged

\* enif_cond_wait may return although nobody signalled.
SpuriousWakeup(i) ==
  /\ ipc[i] = "blocked"
  /\ ipc' = [ipc EXCEPT ![i] = "test"]
  /\ UNCHANGED <<ctxVars, slotVars, sent, ictx, iret, respVars, callHist>>
  /\ resUnchanged

\* lines 98-100: enif_mutex_unlock, then
\* return_value = enif_make_copy(caller_env, callback_res->return_value);
make_nif_call_copy(i) ==
  /\ ipc[i] = "copy"
  /\ iret' = [iret EXCEPT ![i] = return_value[ictx[i]]]
  /\ ipc' = [ipc EXCEPT ![i] = "release"]
  /\ UNCHANGED <<ctxVars, slotVars, sent, ictx, respVars, callHist>>
  /\ resUnchanged

\* Variant: any release of a reference runs the destructor.
ReleaseRef_always(c, h) ==
  /\ holders' = [holders EXCEPT ![c] = @ \ {h}]
  /\ mem' = [mem EXCEPT ![c] = "freed"]
  /\ piece' = [piece EXCEPT ![c] = destruct_nif_call_res(@)]

\* enif_release_resource drops one reference; the destructor runs when it
\* was the last.
ReleaseRef(c, h) ==
  /\ holders' = [holders EXCEPT ![c] = @ \ {h}]
  /\ IF holders[c] \ {h} = {}
       THEN /\ mem' = [mem EXCEPT ![c] = "freed"]
            /\ piece' = [piece EXCEPT ![c] = destruct_nif_call_res(@)]
       ELSE UNCHANGED <<mem, piece>>

\* enif_release_resource(callback_res); return return_value;
make_nif_call_release(i) ==
  /\ ipc[i] = "release"
  /\ ReleaseRef(ictx[i], "alloc")
  /\ ipc' = [ipc EXCEPT ![i] = "done"]
  /\ UNCHANGED <<slotVars, sent, ictx, iret, respVars, callHist>>
  /\ resUnchanged

\* Variant: one condition variable shared by all contexts.
Waiters_shared(c) == {i \in Inv : ipc[i] = "blocked"}

\* The invoking threads that a signal on context c's condition can wake.
Waiters(c) == {i \in Inv : ictx[i] = c /\ ipc[i] = "blocked"}

\* The responder of context c, the process that received its request
\* message, calls nif_call_evaluated(token, v); line 108 succeeds.  A
\* process runs one NIF at a time, so its calls do not overlap.  Every call
\* passes a value of its own (terms are only ever copied and compared, and
\* distinct values are the case in which a mix-up shows).
nif_call_evaluated_enter(c, v) ==
  /\ rpc[c] = "idle"
  /\ nevaluated < MaxCompletes
  /\ sent[c] = "queued"
  /\ "term" \in holders[c]
  /\ v = vused + 1
  /\ vused' = v
  /\ nevaluated' = nevaluated + 1
  /\ rpc' = [rpc EXCEPT ![c] = "stores"]
  /\ rval' = [rval EXCEPT ![c] = v]
  /\ rpend' = [rpend EXCEPT ![c] = {"return_value", "return_value_set"}]
  /\ ncomplete' = [ncomplete EXCEPT ![c] = @ + 1]
  /\ cfirst' = [cfirst EXCEPT ![c] = IF ncomplete[c] = 0 THEN v ELSE @]
  /\ UNCHANGED <<ctxVars, slotVars, sent, invVars>>
  /\ resUnchanged

\* line 108 when argv[0] is not a CallbackNifRes term: badarg, nothing else.
nif_call_evaluated_badarg ==
  /\ nevaluated < MaxCompletes
  /\ nevaluated' = nevaluated + 1
  /\ UNCHANGED <<ctxVars, slotVars, sent, invVars, respVars,
                 ncomplete, cfirst, vused>>
  /\ resUnchanged

\* lines 110-111: two plain stores made without holding the mutex.  The
\* invoking thread reads both fields, so the accesses race and the order in
\* which the stores become visible to it is not determined.
nif_call_evaluated_store(c, f) ==
  /\ rpc[c] = "stores"
  /\ f \in rpend[c]
  /\ rpend' = [rpend EXCEPT ![c] = @ \ {f}]
  /\ rpc' = [rpc EXCEPT ![c] = IF rpend[c] = {f} THEN "signal" ELSE "stores"]
  /\ IF f = "return_value"
       THEN /\ return_value' = [return_value EXCEPT ![c] = rval[c]]
            /\ return_value_set' = return_value_set
       ELSE /\ return_value_set' = [return_value_set EXCEPT ![c] = TRUE]
            /\ return_value' = return_value
  /\ rval' = rval
  /\ UNCHANGED <<ctxVars, sent, invVars, callHist>>
  /\ resUnchanged

\* line 112: enif_cond_signal(res->cond) wakes one thread blocked on the
\* condition, if there is one; then the NIF returns ok.
nif_call_evaluated_signal(c) ==
  /\ rpc[c] = "signal"
  /\ rpc' = [rpc EXCEPT ![c] = "idle"]
  /\ rval' = [rval EXCEPT ![c] = NoValue]
  /\ rpend' = rpend
  /\ IF Waiters(c) = {}
       THEN ipc' = ipc
       ELSE \E i \in Waiters(c) : ipc' = [ipc EXCEPT ![i] = "test"]
  /\ UNCHANGED <<ctxVars, slotVars, sent, ictx, iret, callHist>>
  /\ resUnchanged

\* The managed runtime drops the resource term: the invoking NIF has
\* returned (its heap holds the term until then) and no nif_call_evaluated
\* is running with the term as argument.
DropCallTerm(c) ==
  /\ "term" \in holders[c]
  /\ \A i \in Inv : ictx[i] = c => ipc[i] = "done"
  /\ rpc[c] = "idle"
  /\ ReleaseRef(c, "term")
  /\ UNCHANGED <<slotVars, sent, invVars, respVars, callHist>>
  /\ resUnchanged

InvokerStep(i) ==
  \/ make_nif_call_send(i, TRUE)
  \/ make_nif_call_test(i)
  \/ make_nif_call_wait(i)
  \/ make_nif_call_copy(i)
  \/ make_nif_call_release(i)

ResponderStep(c) ==
  \/ \E f \in {"return_value", "return_value_set"} :
       nif_call_evaluated_store(c, f)
  \/ nif_call_evaluated_signal(c)

CallNext ==
  \/ \E i \in Inv, failAt \in {"none", "res", "msg_env", "mtx", "cond"} :
       make_nif_call_prepare(i, failAt)
  \/ \E i \in Inv, delivered \in BOOLEAN : make_nif_call_send(i, delivered)
  \/ \E i \in Inv : make_nif_call_test(i)
  \/ \E i \in Inv : make_nif_call_wait(i)
  \/ \E i \in Inv : SpuriousWakeup(i)
  \/ \E i \in Inv : make_nif_call_copy(i)
  \/ \E i \in Inv : make_nif_call_release(i)
  \/ \E c \in Ctx, v \in Vals : nif_call_evaluated_enter(c, v)
  \/ nif_call_evaluated_badarg
  \/ \E c \in Ctx, f \in {"return_value", "return_value_set"} :
       nif_call_evaluated_store(c, f)
  \/ \E c \in Ctx : nif_call_evaluated_signal(c)
  \/ \E c \in Ctx : DropCallTerm(c)

CallSpec == Init /\ [][CallNext]_vars

\* Native threads and scheduler threads running a NIF keep being scheduled:
\* every step of make_nif_call that is not blocked, and every step of a
\* started nif_call_evaluated, is eventually taken.  Nothing obliges the
\* evaluator to call nif_call_evaluated, nor a wait to wake spuriously.
FairCallSpec ==
  /\ CallSpec
  /\ \A i \in Inv : WF_vars(InvokerStep(i))
  /\ \A c \in Ctx : WF_vars(ResponderStep(c))

\* ------------------------------------------------ claims: ResourceHandle

\* C1: for any interleaving of create, acquire, scoped release, deallocate
\* and the host finalizer, the array's destructor never runs more than once.
C1_NoDoubleFree == destroyed <= 1

\* The finalizer has destroyed the object after the other path was driven to
\* its end: the flag is set, the counter has been brought to 0 by releases.
C1_Witness ==
  /\ finalized /\ destroyed = 1
  /\ deleted /\ deallocTrue = 1 /\ refcount = 0 /\ released >= 2

\* C4: an acquire whose check runs when the counter is zero or the one-shot
\* flag is set fails with Deallocated and yields no reference.
C4_AcquireFailsOnceDeallocated ==
  [][\A t \in Threads :
       (pc[t] = "ctor_load" /\ pc'[t] # "ctor_load"
          /\ (refcount = 0 \/ deleted))
       => (pc'[t] = "failed" /\ err'[t] = "Deallocated")]_vars

\* C5: among any number of deallocate calls exactly one, the first to
\* test-and-set the flag, returns true and lowers the counter by one; every
\* other call returns false and leaves counter and flag as they were.
C5_DeallocateOnce ==
  /\ [](/\ deallocTrue <= 1
        /\ deallocDecs <= 1
        /\ deallocTrue = deallocDecs
        /\ Cardinality({t \in Threads : pc[t] = "dealloc_dec"}) + deallocDecs
             = (IF deleted THEN 1 ELSE 0))
  /\ [][\A t \in Threads :
         /\ (ndealloc' = ndealloc + 1 /\ pc' = pc /\ dres'[t] = "false")
              => (refcount' = refcount /\ deleted' = deleted)
         /\ (pc[t] = "body" /\ pc'[t] = "dealloc_dec")
              => (~deleted /\ deleted' /\ refcount' = refcount)
         /\ (pc[t] = "dealloc_dec" /\ pc'[t] = "body")
              => (dres'[t] = "true" /\ refcount' = refcount - 1
                  /\ deleted' = deleted)]_vars

\* Two threads hold references and both have called deallocate: one call
\* returned true, the other false.
C5_Witness ==
  \E t, u \in Threads :
    /\ t # u /\ HoldsRef(t) /\ HoldsRef(u)
    /\ dres[t] = "true" /\ dres[u] = "false" /\ deallocTrue = 1

\* C6: the destructor of the array runs in a scoped release exactly when
\* that release takes the counter from 1 to 0.
C6_DestroyExactlyOnOneToZero ==
  [][\A t \in Threads :
       (pc[t] = "body" /\ pc'[t] = "idle")
       => ((destroyed' = destroyed + 1)
           <=> (refcount = 1 /\ refcount' = 0))]_vars

\* C7: while a thread holds a validated reference the array has not been
\* destroyed.
C7_NoDanglingReference ==
  (\E t \in Threads : HoldsRef(t)) => destroyed = 0

\* A reference obtained past a check that raced with the last release: the
\* counter has been at 0, the flag is set, the runtime dropped its term.
C7_Witness ==
  \E t \in Threads : HoldsRef(t) /\ everZero /\ deleted /\ ~termLive

\* C10: once every successful acquire has been matched by its release the
\* pairs have contributed nothing to the counter: it is the initial 1 less
\* the one decrement of deallocate.
C10_NetCountZero ==
  (created /\ acquired = released) => refcount = 1 - deallocDecs

\* Overlapping acquire/release pairs have all completed.
C10_Witness ==
  /\ created /\ overlap /\ acquired >= 2 /\ acquired = released

\* C11: the lifetime of one handle used by one reference at a time.  After
\* create the counter is 1; the first acquire makes it 2 and its release 1
\* again; once deallocate has been applied and every reference released the
\* counter is 0 and the array's destructor has run; an acquire made after
\* that returns Deallocated.
C11_EndToEndLifetime ==
  /\ [](/\ (created /\ acquired = 0 /\ deallocDecs = 0) => refcount = 1
        /\ (acquired = 1 /\ released = 0 /\ deallocDecs = 0) => refcount = 2
        /\ (acquired = 1 /\ released = 1 /\ deallocDecs = 0) => refcount = 1
        /\ (deallocDecs = 1 /\ acquired = released)
             => (refcount = 0 /\ destroyed = 1))
  /\ [][\A t \in Threads :
         (pc[t] = "ctor_load" /\ pc'[t] # "ctor_load"
            /\ deallocDecs = 1 /\ acquired = released)
         => (pc'[t] = "failed" /\ err'[t] = "Deallocated")]_vars

\* C17: the counter is never negative.
C17_CounterNonNegative == refcount >= 0

\* Overlapping references and a deallocate have brought the counter down to
\* 0, and a deallocate was attempted again after that.
C17_Witness ==
  /\ created /\ refcount = 0 /\ overlap /\ deallocDecs = 1
  /\ released >= 2 /\ ndealloc >= 2

\* C18: once the counter has read 0 it stays 0.
C18_ZeroAbsorbing == everZero => refcount = 0

\* C20: an acquire that fails changes neither the counter nor the flag, the
\* destructor of the failed reference changes neither, and deallocate()
\* called on it returns false and changes neither.
C20_FailedAcquireNoEffect ==
  [][\A t \in Threads :
       /\ (pc[t] # "failed" /\ pc'[t] = "failed")
            => (refcount' = refcount /\ deleted' = deleted)
       /\ (pc[t] = "failed" /\ pc'[t] = "idle")
            => (refcount' = refcount /\ deleted' = deleted
                /\ destroyed' = destroyed)
       /\ (pc[t] = "failed" /\ pc'[t] = "failed" /\ dres'[t] # dres[t])
            => (dres'[t] = "false" /\ refcount' = refcount
                /\ deleted' = deleted)
       /\ (ndealloc' = ndealloc + 1
             /\ (refcount' # refcount \/ deleted' # deleted))
            => \E u \in Threads : pc[u] = "body" /\ pc'[u] = "dealloc_dec"]_vars

\* Both kinds of failed reference are in scope at once, and deallocate() has
\* been called on the one that found the array deallocated.
C20_Witness ==
  \E t, u \in Threads :
    /\ pc[t] = "failed" /\ err[t] = "Deallocated" /\ dres[t] = "false"
    /\ pc[u] = "failed" /\ err[u] = "Invalid"
    /\ refcount = 0 /\ deleted

\* ---------------------------------------------------- claims: CallBridge

\* C2: make_nif_call does not return before nif_call_evaluated has been
\* called on its context, and when exactly one call was made, with value v,
\* it returns v.
C2_InvokeReturnsCompletedValue ==
  \A i \in Inv :
    (ipc[i] = "done" /\ ictx[i] # 0)
    => /\ ncomplete[ictx[i]] >= 1
       /\ ncomplete[ictx[i]] = 1 => iret[i] = cfirst[ictx[i]]

\* C3: once nif_call_evaluated has been called on a context, the thread in
\* make_nif_call on that context eventually returns.
C3_CompleteWakesInvoker ==
  \A c \in Ctx :
    (ncomplete[c] >= 1) ~> (\E i \in Inv : ictx[i] = c /\ ipc[i] = "done")

\* C8: when prepare_nif_call fails, the resource and every piece allocated
\* in the attempt have been released when the error is returned, and no
\* caller is left with the context.
C8_FailedPrepareReleasesAll ==
  [][\A i \in Inv :
       (ipc[i] = "idle" /\ ipc'[i] = "done")
       => /\ iret'[i] = kAtomENOMEM /\ ictx'[i] = 0
          /\ \A c \in Ctx :
               (mem[c] = "unused" /\ mem'[c] # "unused")
               => /\ mem'[c] = "freed" /\ holders'[c] = {}
                  /\ \A j \in Inv : ictx'[j] # c
                  /\ \A k \in Pieces :
                       piece'[c][k].allocs > 0 => piece'[c][k].frees > 0]_vars

\* A prepare that failed at the condition variable, after the environment
\* and the mutex had been allocated.
C8_Witness ==
  \E i \in Inv, c \in Ctx :
    /\ ipc[i] = "done" /\ iret[i] = kAtomENOMEM
    /\ mem[c] = "freed" /\ return_value[c] = Zeroed
    /\ piece[c]["msg_env"].allocs = 1 /\ piece[c]["mtx"].allocs = 1
    /\ piece[c]["cond"].allocs = 0

\* C9: two invocations never share a context, and a nif_call_evaluated on
\* one context leaves every other context's result slot, is-set flag and
\* invoking thread as they were.
C9_ContextsIndependent ==
  /\ [](\A i, j \in Inv : (i # j /\ ictx[i] # 0) => ictx[i] # ictx[j])
  /\ [][\A c \in Ctx :
         (rpc'[c] # rpc[c] \/ rpend'[c] # rpend[c])
         => \A d \in Ctx \ {c} :
              /\ return_value'[d] = return_value[d]
              /\ return_value_set'[d] = return_value_set[d]
              /\ \A i \in Inv : ictx[i] = d => ipc'[i] = ipc[i]]_vars

\* One invocation has returned the value it was sent while the other is
\* still blocked on its own, untouched context.
C9_Witness ==
  \E i, j \in Inv :
    /\ i # j
    /\ ipc[i] = "done" /\ iret[i] \in Vals
    /\ ipc[j] = "blocked" /\ ictx[j] # 0
    /\ ~return_value_set[ictx[j]] /\ return_value[ictx[j]] = kAtomNil

\* C12: the pieces of a context are not torn down while its invoking
\* thread is between prepare and the release of its reference (sending,
\* waiting, or about to copy the result), and a context that has been torn
\* down has no referrer left.
C12_TeardownAfterRelease ==
  \A c \in Ctx :
    /\ (\E i \in Inv : ictx[i] = c /\ ipc[i] \notin {"idle", "done"})
         => /\ mem[c] = "alloc"
            /\ \A k \in Pieces : piece[c][k].ptr /\ piece[c][k].frees = 0
    /\ mem[c] = "freed"
         => /\ holders[c] = {}
            /\ \A i \in Inv : ictx[i] = c => ipc[i] = "done"

\* A call has returned its value and its context has been torn down, each
\* piece released once.
C12_Witness ==
  \E i \in Inv :
    /\ ipc[i] = "done" /\ iret[i] \in Vals
    /\ mem[ictx[i]] = "freed"
    /\ \A k \in Pieces :
         piece[ictx[i]][k].allocs = 1 /\ piece[ictx[i]][k].frees = 1

\* The position of a make_nif_call in the order of its steps; the wait loop
\* (test, wait, blocked) is one position.
Rank(p) ==
  CASE p = "idle" -> 0
    [] p = "send" -> 1
    [] p \in {"test", "callwait", "blocked"} -> 2
    [] p = "copy" -> 3
    [] p = "release" -> 4
    [] OTHER -> 5

\* C13 as stated: a context is completed (nif_call_evaluated is called on
\* it for the first time) only when its invoking thread is already waiting,
\* the invoking thread never moves backwards, and a released context stays
\* released.
C13_LinearStateOrder ==
  [][/\ \A c \in Ctx :
          (ncomplete[c] = 0 /\ ncomplete'[c] = 1)
          => \E i \in Inv : ictx[i] = c /\ ipc[i] \in {"callwait", "blocked"}
     /\ \A i \in Inv : Rank(ipc'[i]) >= Rank(ipc[i])
     /\ \A c \in Ctx : mem[c] = "freed" => mem'[c] = "freed"]_vars

\* C13, amended: a context is sent before its invoking thread waits and
\* before it is completed, and it is completed before the invoking thread
\* copies the result and releases it; completion may come before the
\* invoking thread waits, which then does not wait at all.  The invoking
\* thread never moves backwards, and a released context stays released.
C13_StateOrder ==
  /\ [](\A i \in Inv :
          ictx[i] # 0 =>
            /\ Rank(ipc[i]) >= 2 => sent[ictx[i]] # "none"
            /\ ncomplete[ictx[i]] >= 1 => sent[ictx[i]] = "queued"
            /\ Rank(ipc[i]) >= 3 => ncomplete[ictx[i]] >= 1)
  /\ [][/\ \A i \in Inv :
            /\ Rank(ipc'[i]) >= Rank(ipc[i])
            /\ ictx[i] # 0 => ictx'[i] = ictx[i]
        /\ \A c \in Ctx : mem[c] = "freed" => mem'[c] = "freed"]_vars

\* One call has returned its value; the other call's context has been
\* completed while its invoking thread is not waiting.
C13_Witness ==
  \E i, j \in Inv :
    /\ i # j
    /\ ipc[i] = "done" /\ iret[i] \in Vals
    /\ ipc[j] = "test" /\ ncomplete[ictx[j]] = 1 /\ rpc[ictx[j]] = "idle"
    /\ return_value_set[ictx[j]]

\* C14: a make_nif_call whose prepare_nif_call fails returns the atom
\* enomem: it sends nothing, does not wait, and the emulator keeps running.
C14_AllocFailureReturnsENOMEM ==
  [][\A i \in Inv :
       (ipc[i] = "idle" /\ ipc'[i] # "idle" /\ ictx'[i] = 0)
       => /\ ipc'[i] = "done"
          /\ iret'[i] = kAtomENOMEM
          /\ sent' = sent]_vars

\* C15: a nif_call_evaluated on a context on which it has been called
\* before leaves the result slot and the is-set flag as they are, and a
\* value returned by make_nif_call is the one passed to the first call.
C15_SecondCompleteRejected ==
  /\ [][\A c \in Ctx :
         ncomplete[c] >= 2
         => /\ return_value'[c] = return_value[c]
            /\ return_value_set'[c] = return_value_set[c]]_vars
  /\ [](\A i \in Inv :
          (ipc[i] = "done" /\ iret[i] \in Vals)
          => iret[i] = cfirst[ictx[i]])

\* C16: a make_nif_call whose request message could not be queued does not
\* go on to wait on the condition.
C16_SendFailureReturnsError ==
  \A i \in Inv :
    (ictx[i] # 0 /\ sent[ictx[i]] = "lost")
    => ipc[i] \notin {"callwait", "blocked"}

\* C19: no piece of a context is released more than once.
C19_NoPieceFreedTwice ==
  \A c \in Ctx, k \in Pieces : piece[c][k].frees <= 1
====
